---- MODULE Spec2Model ----
(***************************************************************************)
(* Balance-sheet analyzer (app.py): one run of main() as a state machine.  *)
(*                                                                         *)
(* Floating-point cells are modelled as exact fractions [n, d] with d >= 0 *)
(* in lowest terms: d > 0 is the finite number n/d, d = 0 with n = 1 / -1  *)
(* is +inf / -inf, and d = 0 with n = 0 is NaN.  For the integer amounts   *)
(* and the two-digit thresholds used here a correctly rounded IEEE         *)
(* quotient compares with a threshold literal exactly as the fraction      *)
(* does.                                                                   *)
(***************************************************************************)
EXTENDS Integers, Sequences, FiniteSets, TLC

VARIABLES
    typed,          \* what the user types at the prompt
    provider,       \* the balance sheet the data provider holds for the ticker
    pc,             \* where main() is
    symbol,         \* main's symbol, after strip()
    ticker,         \* the symbol get_stock_data looks up
    balance_sheet,  \* the table fetched
    results,        \* analyze_balance_sheet's results dict
    analysis,       \* the report built by generate_ai_analysis
    out,            \* the lines printed so far
    chartSaved,     \* balance_sheet_analysis.png has been written
    steps,          \* the steps begun so far, in order
    err             \* the step whose code raised, or "none"

vars == <<typed, provider, pc, symbol, ticker, balance_sheet, results,
          analysis, out, chartSaved, steps, err>>

----------------------------------------------------------------------------
(* Bounds of the model *)

\* most year columns in a table returned by the data provider
MaxYears == 2

\* most characters typed at the prompt
MaxSymLen == 2

----------------------------------------------------------------------------
(* numpy float64 arithmetic on exact fractions *)

NaN == [n |-> 0, d |-> 0]
PosInf == [n |-> 1, d |-> 0]
NegInf == [n |-> -1, d |-> 0]

Abs(x) == IF x < 0 THEN -x ELSE x

RECURSIVE GCD(_, _)
GCD(a, b) == IF b = 0 THEN a ELSE GCD(b, a % b)

\* the finite number n/d, d > 0, in lowest terms
Rat(n, d) == LET g == GCD(Abs(n), d) IN [n |-> n \div g, d |-> d \div g]

Num(k) == [n |-> k, d |-> 1]

IsNaN(x) == x.d = 0 /\ x.n = 0

IsFinite(x) == x.d > 0

Neg(x) == [n |-> -x.n, d |-> x.d]

\* a / b elementwise as numpy divides float64: x/0 is +-inf, 0/0 and
\* anything with NaN is NaN (a warning, never an exception)
Div(a, b) ==
    IF IsNaN(a) \/ IsNaN(b) THEN NaN
    ELSE IF b.d = 0 THEN (IF a.d = 0 THEN NaN ELSE Num(0))
    ELSE IF a.d = 0 THEN (IF b.n >= 0 THEN a ELSE Neg(a))
    ELSE IF b.n = 0 THEN (IF a.n = 0 THEN NaN ELSE IF a.n > 0 THEN PosInf ELSE NegInf)
    ELSE IF b.n < 0 THEN Rat(-(a.n * b.d), -(a.d * b.n))
    ELSE Rat(a.n * b.d, a.d * b.n)

\* a > b and a < b on float64: every comparison with NaN is False
Gt(a, b) ==
    /\ ~IsNaN(a) /\ ~IsNaN(b)
    /\ IF a.d = 0 /\ b.d = 0 THEN a.n > b.n ELSE a.n * b.d > b.n * a.d

Lt(a, b) == Gt(b, a)

----------------------------------------------------------------------------
(* Typed symbols and get_stock_data's suffix handling *)

Chars == {"A", ".", " "}

Suffix == <<".", "N", "S">>

Contains(s, c) == \E i \in 1..Len(s) : s[i] = c

\* str.strip(): leading and trailing blanks removed
RECURSIVE Strip(_)
Strip(s) ==
    IF s = <<>> THEN s
    ELSE IF Head(s) = " " THEN Strip(Tail(s))
    ELSE IF s[Len(s)] = " " THEN Strip(SubSeq(s, 1, Len(s) - 1))
    ELSE s

\* variant: the suffix appended without the test for a '.'
NormaliseAlways(s) == s \o Suffix

\* if '.' not in symbol: symbol += ".NS"
Normalise(s) == IF ~Contains(s, ".") THEN s \o Suffix ELSE s

----------------------------------------------------------------------------
(* The balance-sheet table: one column per statement date, one row per     *)
(* line item that the provider reports                                     *)

UsedItems == {"Total Assets", "Total Liabilities", "Total Equity",
              "Current Assets", "Current Liabilities", "Long Term Debt",
              "Cash And Cash Equivalents"}

RatioItems == {"Total Assets", "Total Equity", "Current Assets",
               "Current Liabilities", "Long Term Debt"}

\* a statement date is <<year, month, day>>
Year(date) == date[1]

NoTable == [columns |-> <<>>, rows |-> [r \in {} |-> <<>>]]

\* variant: emptiness judged by the year columns alone
EmptyColumnsOnly(t) == Len(t.columns) = 0

\* DataFrame.empty: some axis has length 0
Empty(t) == Len(t.columns) = 0 \/ DOMAIN t.rows = {}

\* balance_sheet.T with the index converted to years
Transpose(t) ==
    [index |-> [i \in 1..Len(t.columns) |-> Year(t.columns[i])],
     cols  |-> t.rows]

\* variant: an absent row defaults to zeros
GetZeroDefault(df, name) ==
    IF name \in DOMAIN df.cols THEN df.cols[name]
    ELSE [i \in 1..Len(df.index) |-> Num(0)]

\* bs_df.get(name, pd.Series([np.nan]*len(bs_df))).values
Get(df, name) ==
    IF name \in DOMAIN df.cols THEN df.cols[name]
    ELSE [i \in 1..Len(df.index) |-> NaN]

\* variant: every year divided by the first year's denominator
ElemDivFirstYear(a, b) == [i \in 1..Len(a) |-> Div(a[i], b[1])]

\* numpy elementwise division of two arrays of one length
ElemDiv(a, b) == [i \in 1..Len(a) |-> Div(a[i], b[i])]

NoResults ==
    [years |-> <<>>, total_assets |-> <<>>, total_liab |-> <<>>,
     total_equity |-> <<>>, current_assets |-> <<>>, current_liab |-> <<>>,
     long_term_debt |-> <<>>, cash |-> <<>>, current_ratio |-> <<>>,
     debt_to_equity |-> <<>>, debt_to_assets |-> <<>>, equity_ratio |-> <<>>]

\* analyze_balance_sheet, the extraction and the four ratios
Ratios(t) ==
    LET bs_df == Transpose(t)
        ta  == Get(bs_df, "Total Assets")
        tl  == Get(bs_df, "Total Liabilities")
        te  == Get(bs_df, "Total Equity")
        ca  == Get(bs_df, "Current Assets")
        cl  == Get(bs_df, "Current Liabilities")
        ltd == Get(bs_df, "Long Term Debt")
        csh == Get(bs_df, "Cash And Cash Equivalents")
    IN [years |-> bs_df.index,
        total_assets |-> ta, total_liab |-> tl, total_equity |-> te,
        current_assets |-> ca, current_liab |-> cl, long_term_debt |-> ltd,
        cash |-> csh,
        current_ratio  |-> ElemDiv(ca, cl),
        debt_to_equity |-> ElemDiv(ltd, te),
        debt_to_assets |-> ElemDiv(ltd, ta),
        equity_ratio   |-> ElemDiv(te, ta)]

----------------------------------------------------------------------------
(* generate_ai_analysis: the rule-based report *)

\* rupees per crore
Crore == 10000000

Last(s) == s[Len(s)]

\* the chain written upwards with `not >`: NaN then falls to the top bucket
LiquidityAscending(cr) ==
    IF ~Gt(cr, Num(1)) /\ ~IsNaN(cr) THEN "potential liquidity concerns"
    ELSE IF ~Gt(cr, Rat(6, 5)) /\ ~IsNaN(cr) THEN "minimal liquidity buffer"
    ELSE IF ~Gt(cr, Rat(3, 2)) /\ ~IsNaN(cr) THEN "adequate current assets coverage"
    ELSE IF ~Gt(cr, Num(2)) /\ ~IsNaN(cr) THEN "comfortable liquidity position"
    ELSE "excellent short-term financial health"

\* the if/elif chain on cr, thresholds 2.0, 1.5, 1.2, 1.0
Liquidity(cr) ==
    IF Gt(cr, Num(2)) THEN "excellent short-term financial health"
    ELSE IF Gt(cr, Rat(3, 2)) THEN "comfortable liquidity position"
    ELSE IF Gt(cr, Rat(6, 5)) THEN "adequate current assets coverage"
    ELSE IF Gt(cr, Num(1)) THEN "minimal liquidity buffer"
    ELSE "potential liquidity concerns"

\* the if/elif chain on dte, thresholds 0.3, 0.7, 1.0
Debt(dte) ==
    IF Lt(dte, Rat(3, 10)) THEN "conservative debt management with low financial risk"
    ELSE IF Lt(dte, Rat(7, 10)) THEN "moderate leverage that's typically manageable"
    ELSE IF Lt(dte, Num(1)) THEN "aggressive financing strategy"
    ELSE "highly leveraged position increasing bankruptcy risk"

\* the if/elif chain on equity_ratio, thresholds 0.6, 0.4
Equity(er) ==
    IF Gt(er, Rat(3, 5)) THEN "strong equity base providing financial stability"
    ELSE IF Gt(er, Rat(2, 5)) THEN "balanced capital structure"
    ELSE "asset-heavy with potential refinancing risks"

\* f"{cash:.2f}" of a finite amount: the nearest number of hundredths
\* (amounts that fall exactly between two hundredths are not used)
Hundredths(x) ==
    LET q == (x.n * 100) \div x.d
        r == (x.n * 100) % x.d
    IN IF 2 * r >= x.d THEN q + 1 ELSE q

\* cash_str: the formatted amount, or "insufficient data" when np.isnan(cash)
CashStr(cash) ==
    IF ~IsNaN(cash)
    THEN [text |-> "Crores",
          amount |-> IF IsFinite(cash) THEN Hundredths(cash) ELSE cash.n]
    ELSE [text |-> "insufficient data", amount |-> 0]

\* the working-capital phrase of the Asset Efficiency paragraph
Efficiency(ca, ta) ==
    IF Gt(Div(ca, ta), Rat(2, 5)) THEN "efficient working capital management"
    ELSE "capital-intensive operations"

\* variant: `or` in place of `and`
RecommendationEither(dte, cr) ==
    IF Lt(dte, Rat(1, 2)) \/ Gt(cr, Rat(3, 2)) THEN "Conservative" ELSE "Moderate"

\* 'Conservative' if dte < 0.5 and cr > 1.5 else 'Moderate'
Recommendation(dte, cr) ==
    IF Lt(dte, Rat(1, 2)) /\ Gt(cr, Rat(3, 2)) THEN "Conservative" ELSE "Moderate"

NoAnalysis ==
    [latest_year |-> 0, liquidity |-> "", debt |-> "", equity |-> "",
     cash_str |-> [text |-> "", amount |-> 0], efficiency |-> "",
     recommendation |-> ""]

\* generate_ai_analysis on a results record with at least one year
generate_ai_analysis(res) ==
    LET cr   == Last(res.current_ratio)
        dte  == Last(res.debt_to_equity)
        er   == Last(res.equity_ratio)
        cash == Div(Last(res.cash), Num(Crore))
    IN [latest_year |-> Last(res.years),
        liquidity |-> Liquidity(cr),
        debt |-> Debt(dte),
        equity |-> Equity(er),
        cash_str |-> CashStr(cash),
        efficiency |-> Efficiency(Last(res.current_assets), Last(res.total_assets)),
        recommendation |-> Recommendation(dte, cr)]

----------------------------------------------------------------------------
(* main(): one action per step of the run.  Each step that calls into the  *)
(* provider, numpy/pandas or matplotlib may also raise.                    *)

\* print banner, read and strip the symbol, print "Fetching data for ..."
Prompt ==
    /\ pc = "start"
    /\ symbol' = Strip(typed)
    /\ out' = out \o <<"banner", "fetching">>
    /\ pc' = "fetch"
    /\ UNCHANGED <<typed, provider, ticker, balance_sheet, results, analysis,
                   chartSaved, steps, err>>

\* get_stock_data returns the provider's statements
GetStockData ==
    /\ pc = "fetch"
    /\ ticker' = Normalise(symbol)
    /\ balance_sheet' = provider
    /\ steps' = Append(steps, "fetch")
    /\ pc' = "check"
    /\ UNCHANGED <<typed, provider, symbol, results, analysis, out,
                   chartSaved, err>>

\* variant: a failed fetch is tried once more
GetStockDataRaiseRetry ==
    /\ pc = "fetch"
    /\ ticker' = Normalise(symbol)
    /\ steps' = Append(steps, "fetch")
    /\ IF Len(steps) = 0
       THEN pc' = "fetch" /\ err' = err
       ELSE pc' = "except" /\ err' = "fetch"
    /\ UNCHANGED <<typed, provider, symbol, balance_sheet, results, analysis,
                   out, chartSaved>>

\* variant: the fetch outside the try block
GetStockDataRaiseUncaught ==
    /\ pc = "fetch"
    /\ ticker' = Normalise(symbol)
    /\ steps' = Append(steps, "fetch")
    /\ err' = "fetch"
    /\ pc' = "crashed"
    /\ UNCHANGED <<typed, provider, symbol, balance_sheet, results, analysis,
                   out, chartSaved>>

\* get_stock_data raises (network failure, unknown symbol): control goes
\* to the except clause
GetStockDataRaise ==
    /\ pc = "fetch"
    /\ ticker' = Normalise(symbol)
    /\ steps' = Append(steps, "fetch")
    /\ err' = "fetch"
    /\ pc' = "except"
    /\ UNCHANGED <<typed, provider, symbol, balance_sheet, results, analysis,
                   out, chartSaved>>

\* if balance_sheet.empty: print the message and return
NoData ==
    /\ pc = "check"
    /\ Empty(balance_sheet)
    /\ out' = Append(out, "no_data")
    /\ pc' = "done"
    /\ UNCHANGED <<typed, provider, symbol, ticker, balance_sheet, results,
                   analysis, chartSaved, steps, err>>

\* print "Analyzing financial health..." and compute the results dict
AnalyzeBalanceSheet ==
    /\ pc = "check"
    /\ ~Empty(balance_sheet)
    /\ out' = Append(out, "analyzing")
    /\ steps' = Append(steps, "ratios")
    /\ results' = Ratios(balance_sheet)
    /\ pc' = "chart"
    /\ UNCHANGED <<typed, provider, symbol, ticker, balance_sheet, analysis,
                   chartSaved, err>>

\* the extraction raises (column labels that are no dates, cells that are
\* no numbers)
AnalyzeBalanceSheetRaise ==
    /\ pc = "check"
    /\ ~Empty(balance_sheet)
    /\ out' = Append(out, "analyzing")
    /\ steps' = Append(steps, "ratios")
    /\ err' = "ratios"
    /\ pc' = "except"
    /\ UNCHANGED <<typed, provider, symbol, ticker, balance_sheet, results,
                   analysis, chartSaved>>

\* generate_visualizations draws the six panels and saves the PNG
GenerateVisualizations ==
    /\ pc = "chart"
    /\ steps' = Append(steps, "chart")
    /\ chartSaved' = TRUE
    /\ pc' = "report"
    /\ UNCHANGED <<typed, provider, symbol, ticker, balance_sheet, results,
                   analysis, out, err>>

\* matplotlib raises, before savefig or after it (in plt.show)
GenerateVisualizationsRaise ==
    /\ pc = "chart"
    /\ steps' = Append(steps, "chart")
    /\ chartSaved' \in BOOLEAN
    /\ err' = "chart"
    /\ pc' = "except"
    /\ UNCHANGED <<typed, provider, symbol, ticker, balance_sheet, results,
                   analysis, out>>

\* generate_ai_analysis builds the report
GenerateAiAnalysis ==
    /\ pc = "report"
    /\ Len(results.years) > 0
    /\ steps' = Append(steps, "report")
    /\ analysis' = generate_ai_analysis(results)
    /\ pc' = "print"
    /\ UNCHANGED <<typed, provider, symbol, ticker, balance_sheet, results,
                   out, chartSaved, err>>

\* generate_ai_analysis raises (results['years'][-1] on no years, a value
\* that cannot be formatted)
GenerateAiAnalysisRaise ==
    /\ pc = "report"
    /\ steps' = Append(steps, "report")
    /\ err' = "report"
    /\ pc' = "except"
    /\ UNCHANGED <<typed, provider, symbol, ticker, balance_sheet, results,
                   analysis, out, chartSaved>>

\* print the rule, the report, the rule and the "Visual analysis saved" line
PrintReport ==
    /\ pc = "print"
    /\ steps' = Append(steps, "print")
    /\ out' = out \o <<"rule", "report", "rule", "saved">>
    /\ pc' = "done"
    /\ UNCHANGED <<typed, provider, symbol, ticker, balance_sheet, results,
                   analysis, chartSaved, err>>

\* except Exception as e: print "Error: ..." and the hint
Except ==
    /\ pc = "except"
    /\ out' = out \o <<"error", "hint">>
    /\ pc' = "done"
    /\ UNCHANGED <<typed, provider, symbol, ticker, balance_sheet, results,
                   analysis, chartSaved, steps, err>>

Next ==
    \/ Prompt
    \/ GetStockData
    \/ GetStockDataRaise
    \/ NoData
    \/ AnalyzeBalanceSheet
    \/ AnalyzeBalanceSheetRaise
    \/ GenerateVisualizations
    \/ GenerateVisualizationsRaise
    \/ GenerateAiAnalysis
    \/ GenerateAiAnalysisRaise
    \/ PrintReport
    \/ Except

----------------------------------------------------------------------------
(* What the user may type and what the provider may hold *)

\* every string of at most MaxSymLen characters
Symbols == UNION {[1..n -> Chars] : n \in 0..MaxSymLen}

\* statement dates, most recent first as the provider lists them
DateList == <<<<2024, 3, 31>>, <<2023, 3, 31>>, <<2022, 3, 31>>, <<2021, 3, 31>>>>

Dates == {DateList[i] : i \in 1..Len(DateList)}

\* a year's line items
Column(ta, tl, te, ca, cl, ltd, cash) ==
    [r \in UsedItems |->
        CASE r = "Total Assets" -> ta
          [] r = "Total Liabilities" -> tl
          [] r = "Total Equity" -> te
          [] r = "Current Assets" -> ca
          [] r = "Current Liabilities" -> cl
          [] r = "Long Term Debt" -> ltd
          [] r = "Cash And Cash Equivalents" -> cash]

\* the table with these dates, these per-year items and these rows reported
\* ("Goodwill" stands for any row the analysis does not read)
MakeTable(dates, cols, present) ==
    [columns |-> dates,
     rows |-> [r \in present |->
                 [i \in 1..Len(dates) |->
                     IF r \in UsedItems THEN cols[i][r] ELSE Num(1)]]]

\* one company's books, year by year
History(date) ==
    CASE Year(date) = 2024 ->
           Column(Num(100), Num(40), Num(60), Num(30), Num(20), Num(15), Num(25040000))
      [] Year(date) = 2023 ->
           Column(Num(80), Num(50), Num(30), Num(30), Num(10), Num(30), NaN)
      [] Year(date) = 2022 ->
           Column(Num(60), Num(50), Num(10), Num(12), Num(15), Num(40), Num(1230000))
      [] OTHER ->
           Column(Num(50), Num(60), Num(-10), Num(10), Num(0), NaN, Num(0))

\* sequences of distinct dates, in any order, at most MaxYears long
DateOrders ==
    {d \in UNION {[1..n -> Dates] : n \in 0..MaxYears} :
        \A i, j \in 1..Len(d) : i # j => d[i] # d[j]}

RowSets ==
    {UsedItems \cup {"Goodwill"}, {}, {"Goodwill"},
     UsedItems \ {"Current Liabilities"}}

\* the company's books with the columns in any order
HistoryTables ==
    {MakeTable(d, [i \in 1..Len(d) |-> History(d[i])], p) :
        d \in DateOrders, p \in RowSets}

Start ==
    /\ pc = "start"
    /\ symbol = <<>>
    /\ ticker = <<>>
    /\ balance_sheet = NoTable
    /\ results = NoResults
    /\ analysis = NoAnalysis
    /\ out = <<>>
    /\ chartSaved = FALSE
    /\ steps = <<>>
    /\ err = "none"

Init ==
    /\ typed \in Symbols
    /\ provider \in HistoryTables
    /\ Start

Spec == Init /\ [][Next]_vars

\* main runs to its end: no call blocks forever
FairSpec == Spec /\ WF_vars(Next)

----------------------------------------------------------------------------
(* Tables for the ratio arithmetic: every mix of sample years, with any    *)
(* of the ratio rows not reported                                          *)

Healthy == Column(Num(100), Num(40), Num(60), Num(30), Num(20), Num(15), Num(25040000))

\* a sample year with one of its items not a number
Hole(item) == [Healthy EXCEPT ![item] = NaN]

SampleYears ==
    {Healthy,
     Column(Num(0), Num(5), Num(0), Num(5), Num(0), Num(5), Num(0)),
     Column(Num(0), Num(0), Num(0), Num(0), Num(0), Num(0), NaN),
     Column(Num(50), Num(60), Num(-10), Num(20), Num(40), Num(30), Num(1230000))}
    \cup {Hole(item) : item \in RatioItems}

RatioTables ==
    {MakeTable(SubSeq(DateList, 1, Len(c)), c,
               p \cup {"Total Liabilities", "Cash And Cash Equivalents"}) :
        c \in UNION {[1..n -> SampleYears] : n \in 1..MaxYears},
        p \in SUBSET RatioItems}

InitRatios ==
    /\ typed = <<"A">>
    /\ provider \in RatioTables \cup {NoTable}
    /\ Start

SpecRatios == InitRatios /\ [][Next]_vars

----------------------------------------------------------------------------
(* Tables for the report: the last column takes every combination of       *)
(* amounts on and around the thresholds, earlier columns are the books     *)

CurrentAssetsAmounts ==
    {NaN, Num(0), Num(10), Num(11), Num(12), Num(13), Num(15), Num(18),
     Num(20), Num(25)}

CurrentLiabAmounts == {NaN, Num(0), Num(10)}

LongTermDebtAmounts ==
    {NaN, Num(0), Num(6), Num(9), Num(12), Num(15), Num(18), Num(21),
     Num(27), Num(30), Num(45)}

TotalEquityAmounts == {NaN, Num(-30), Num(0), Num(30)}

TotalAssetsAmounts == {NaN, Num(0), Num(50), Num(60), Num(75)}

CashAmounts == {NaN, Num(25040000)}

ReportColumns ==
    {Column(ta, Num(40), te, ca, cl, ltd, cash) :
        ta \in TotalAssetsAmounts, te \in TotalEquityAmounts,
        ca \in CurrentAssetsAmounts, cl \in CurrentLiabAmounts,
        ltd \in LongTermDebtAmounts, cash \in CashAmounts}

ReportTables ==
    {MakeTable(SubSeq(DateList, 1, n),
               [i \in 1..n |-> IF i = n THEN c ELSE History(DateList[i])],
               UsedItems) :
        n \in 1..MaxYears, c \in ReportColumns}

InitReport ==
    /\ typed = <<"A">>
    /\ provider \in ReportTables \cup {NoTable}
    /\ Start

SpecReport == InitReport /\ [][Next]_vars

----------------------------------------------------------------------------
(* Vocabulary of the properties *)

InSeq(x, s) == \E i \in 1..Len(s) : s[i] = x

IsPrefix(s, t) == Len(s) <= Len(t) /\ \A i \in 1..Len(s) : s[i] = t[i]

\* the results dict has been computed in this run
Computed == InSeq("ratios", steps) /\ err # "ratios"

\* the report has been built in this run
Reported == InSeq("report", steps) /\ err # "report"

\* q is the float64 quotient of the table cells a and b, said without Div:
\* q * b = a for a finite quotient, the sign of a over zero, NaN otherwise
IsQuotient(q, a, b) ==
    IF IsNaN(a) \/ IsNaN(b) THEN IsNaN(q)
    ELSE IF b.n = 0
         THEN q = (IF a.n = 0 THEN NaN ELSE IF a.n > 0 THEN PosInf ELSE NegInf)
    ELSE /\ IsFinite(q)
         /\ q.n * b.n * a.d = a.n * q.d * b.d
         /\ GCD(Abs(q.n), q.d) = 1

\* x > n/d and x < n/d for a threshold n/d, d > 0, said without Gt and Lt
Above(x, n, d) == x = PosInf \/ (IsFinite(x) /\ x.n * d > n * x.d)

Below(x, n, d) == x = NegInf \/ (IsFinite(x) /\ x.n * d < n * x.d)

\* the line item is missing for year i of the table: no such row, or NaN
Missing(t, item, i) == item \notin DOMAIN t.rows \/ IsNaN(t.rows[item][i])

\* the four ratios: results key, numerator row, denominator row
RatioDefs ==
    {<<"current_ratio", "Current Assets", "Current Liabilities">>,
     <<"debt_to_equity", "Long Term Debt", "Total Equity">>,
     <<"debt_to_assets", "Long Term Debt", "Total Assets">>,
     <<"equity_ratio", "Total Equity", "Total Assets">>}

\* the results key that holds a row's values
KeyOf(item) ==
    CASE item = "Total Assets" -> "total_assets"
      [] item = "Total Equity" -> "total_equity"
      [] item = "Current Assets" -> "current_assets"
      [] item = "Current Liabilities" -> "current_liab"
      [] item = "Long Term Debt" -> "long_term_debt"

----------------------------------------------------------------------------
(* C1 *)

\* C1: when the report is built from a current ratio of exactly 1.5 in the
\* column it reads, the liquidity label is "comfortable liquidity position"
\* and not "excellent short-term financial health".
C1_ExactlyOneAndAHalfIsComfortable ==
    (Reported /\ Last(results.current_ratio) = [n |-> 3, d |-> 2])
        => /\ analysis.liquidity = "comfortable liquidity position"
           /\ analysis.liquidity # "excellent short-term financial health"

----------------------------------------------------------------------------
(* C2 *)

\* C2: once the results are computed, for every year i each of the four
\* ratios is the quotient of its two line items of that same year i, the
\* line items are the table's cells of year i, and every array has one
\* entry per year column.
C2_RatiosAreSameYearQuotients ==
    Computed =>
        LET n == Len(balance_sheet.columns) IN
        /\ Len(results.years) = n
        /\ \A i \in 1..n : results.years[i] = balance_sheet.columns[i][1]
        /\ \A item \in RatioItems :
              /\ Len(results[KeyOf(item)]) = n
              /\ item \in DOMAIN balance_sheet.rows =>
                    \A i \in 1..n :
                        results[KeyOf(item)][i] = balance_sheet.rows[item][i]
        /\ \A r \in RatioDefs :
              /\ Len(results[r[1]]) = n
              /\ \A i \in 1..n :
                    IsQuotient(results[r[1]][i], results[KeyOf(r[2])][i],
                               results[KeyOf(r[3])][i])

\* a finished run over two different years with finite, different ratios
C2_Witness ==
    /\ pc = "done" /\ err = "none" /\ Computed
    /\ Len(results.years) >= 2
    /\ results.current_ratio[1] = [n |-> 3, d |-> 2]
    /\ results.current_ratio[2] = [n |-> 1, d |-> 2]
    /\ results.debt_to_equity[2] = [n |-> -3, d |-> 1]
    /\ results.equity_ratio[1] = [n |-> 3, d |-> 5]

----------------------------------------------------------------------------
(* C3 *)

\* C3: once the results are computed, a ratio is NaN in every year in
\* which one of its two line items is missing (row absent, or NaN in that
\* year); in a year in which neither is missing it is the quotient of the
\* table's two cells, whatever else is missing; and in every non-empty
\* table, whatever is missing, the computation can complete.
C3_NaNPropagation ==
    /\ Computed =>
          \A r \in RatioDefs : \A i \in 1..Len(balance_sheet.columns) :
              IF Missing(balance_sheet, r[2], i) \/ Missing(balance_sheet, r[3], i)
              THEN IsNaN(results[r[1]][i])
              ELSE IsQuotient(results[r[1]][i], balance_sheet.rows[r[2]][i],
                              balance_sheet.rows[r[3]][i])
    /\ (pc = "check" /\ Len(balance_sheet.columns) > 0
            /\ DOMAIN balance_sheet.rows # {}) => ENABLED AnalyzeBalanceSheet

\* a finished run, report printed, over a table with an absent row and a
\* NaN cell, where a ratio that uses neither is a number
C3_Witness ==
    /\ pc = "done" /\ err = "none" /\ InSeq("report", out)
    /\ Len(balance_sheet.columns) >= 2
    /\ "Total Equity" \notin DOMAIN balance_sheet.rows
    /\ "Current Assets" \in DOMAIN balance_sheet.rows
    /\ "Current Liabilities" \in DOMAIN balance_sheet.rows
    /\ IsNaN(balance_sheet.rows["Current Assets"][1])
    /\ IsNaN(results.current_ratio[1])
    /\ results.current_ratio[2] = [n |-> 3, d |-> 2]
    /\ \A i \in 1..2 : IsNaN(results.debt_to_equity[i])

----------------------------------------------------------------------------
(* C4 *)

\* C4: when the provider's balance sheet is empty (no year columns, or no
\* rows) and the fetch succeeds, the run goes from the check straight to
\* its end: it prints the no-data message and nothing after it, computes
\* no ratios, saves no chart, builds and prints no report and prints no
\* "Visual analysis saved" line.
C4_EmptyTableEndsRun ==
    (InSeq("fetch", steps) /\ err = "none"
        /\ (Len(provider.columns) = 0 \/ Cardinality(DOMAIN provider.rows) = 0))
    => /\ pc \in {"check", "done"}
       /\ steps = <<"fetch">>
       /\ results = NoResults
       /\ analysis = NoAnalysis
       /\ ~chartSaved
       /\ pc = "done" => out = <<"banner", "fetching", "no_data">>

\* a finished run over a table that has year columns but no rows
C4_Witness ==
    /\ pc = "done"
    /\ Len(balance_sheet.columns) = MaxYears
    /\ DOMAIN balance_sheet.rows = {}
    /\ Last(out) = "no_data"

----------------------------------------------------------------------------
(* C5 *)

\* C5: an error raised by the fetch, the ratio computation, the chart or
\* the report never leaves main: control is in the except clause or at the
\* normal end, the run that ends has printed the "Error: ..." line, and
\* neither the report nor the "Visual analysis saved" line is in its
\* output.
C5_ErrorsAreCaught ==
    /\ pc \in {"start", "fetch", "check", "chart", "report", "print",
               "except", "done"}
    /\ err # "none" =>
          /\ pc \in {"except", "done"}
          /\ ~InSeq("report", out)
          /\ ~InSeq("saved", out)
          /\ Last(steps) = err
          /\ pc = "except" => ENABLED Except
          /\ pc = "done" =>
                /\ Len(out) >= 2
                /\ SubSeq(out, Len(out) - 1, Len(out)) = <<"error", "hint">>

\* a run ended by an error in the report, after the chart was saved
C5_Witness ==
    /\ pc = "done" /\ err = "report" /\ chartSaved
    /\ out = <<"banner", "fetching", "analyzing", "error", "hint">>

----------------------------------------------------------------------------
(* C6 *)

\* C6: in every run the steps begun are a prefix of fetch, ratios, chart,
\* report, print (fixed order, each at most once, no second fetch), the
\* report is printed only when the chart has been saved, and the run
\* reaches its end.
C6_FixedOrderAndTermination ==
    /\ [](/\ IsPrefix(steps, <<"fetch", "ratios", "chart", "report", "print">>)
          /\ InSeq("report", out) => chartSaved)
    /\ <>(pc = "done")

\* a run that went through all five steps
C6_Witness ==
    /\ pc = "done"
    /\ steps = <<"fetch", "ratios", "chart", "report", "print">>
    /\ chartSaved
    /\ out = <<"banner", "fetching", "analyzing", "rule", "report", "rule", "saved">>

----------------------------------------------------------------------------
(* C7 *)

\* the largest of a non-empty sequence of years
MaxOf(years) == CHOOSE y \in {years[i] : i \in 1..Len(years)} :
                    \A i \in 1..Len(years) : years[i] <= y

\* C7: the year of the report is the largest fiscal year of the table,
\* whatever the order of its columns, and the labels and the cash figure are
\* those of that year's column.
C7_ReportIsOfMaximumYear ==
    Reported =>
        LET m == MaxOf(results.years)
            k == CHOOSE i \in 1..Len(results.years) : results.years[i] = m
        IN /\ analysis.latest_year = m
           /\ analysis.liquidity = Liquidity(results.current_ratio[k])
           /\ analysis.debt = Debt(results.debt_to_equity[k])
           /\ analysis.equity = Equity(results.equity_ratio[k])
           /\ analysis.cash_str = CashStr(Div(results.cash[k], Num(Crore)))

----------------------------------------------------------------------------
(* C8 *)

\* C8: the symbol looked up is the symbol given with ".NS" appended exactly
\* when the symbol given has no '.', and the symbol given itself otherwise;
\* it always contains a '.', and normalising it again changes nothing.
C8_SuffixIffNoDot ==
    InSeq("fetch", steps) =>
        /\ Len(ticker) >= Len(symbol)
        /\ SubSeq(ticker, 1, Len(symbol)) = symbol
        /\ SubSeq(ticker, Len(symbol) + 1, Len(ticker)) =
              (IF \A i \in 1..Len(symbol) : symbol[i] # "." THEN <<".", "N", "S">>
               ELSE <<>>)
        /\ \E i \in 1..Len(ticker) : ticker[i] = "."
        /\ Normalise(ticker) = ticker

\* one lookup with the suffix appended ...
C8_Witness ==
    /\ InSeq("fetch", steps)
    /\ typed = <<" ", "A">>
    /\ symbol = <<"A">>
    /\ ticker = <<"A", ".", "N", "S">>

----------------------------------------------------------------------------
(* C9 *)

ReportedCr == Last(results.current_ratio)

ReportedDte == Last(results.debt_to_equity)

ReportedEr == Last(results.equity_ratio)

\* C9: the report says "Conservative" exactly when dte < 0.5 and cr > 1.5,
\* and then the liquidity label is one of the two best and the debt label
\* one of the two lowest; otherwise, and with any NaN ratio, it says
\* "Moderate".
C9_RecommendationMatchesLabels ==
    Reported =>
        /\ analysis.recommendation \in {"Conservative", "Moderate"}
        /\ analysis.recommendation = "Conservative"
              <=> (Below(ReportedDte, 1, 2) /\ Above(ReportedCr, 3, 2))
        /\ analysis.recommendation = "Conservative" =>
              /\ analysis.liquidity \in
                    {"excellent short-term financial health",
                     "comfortable liquidity position"}
              /\ analysis.debt \in
                    {"conservative debt management with low financial risk",
                     "moderate leverage that's typically manageable"}
        /\ (IsNaN(ReportedCr) \/ IsNaN(ReportedDte)) =>
              analysis.recommendation = "Moderate"

\* a "Conservative" report with the second-best label on both axes
C9_Witness ==
    /\ pc = "done" /\ InSeq("report", out)
    /\ analysis.recommendation = "Conservative"
    /\ analysis.liquidity = "comfortable liquidity position"
    /\ analysis.debt = "moderate leverage that's typically manageable"

----------------------------------------------------------------------------
(* C10 *)

\* C10: every report carries one of the five liquidity labels, one of the
\* four debt labels and one of the three equity labels; a NaN ratio gets
\* the label of the worst numeric bucket (cr <= 1, dte >= 1,
\* equity ratio <= 0.4), and NaN cash is reported as "insufficient data".
C10_ClassifiersTotalNaNLast ==
    Reported =>
        /\ analysis.liquidity \in
              {"excellent short-term financial health",
               "comfortable liquidity position",
               "adequate current assets coverage",
               "minimal liquidity buffer",
               "potential liquidity concerns"}
        /\ analysis.debt \in
              {"conservative debt management with low financial risk",
               "moderate leverage that's typically manageable",
               "aggressive financing strategy",
               "highly leveraged position increasing bankruptcy risk"}
        /\ analysis.equity \in
              {"strong equity base providing financial stability",
               "balanced capital structure",
               "asset-heavy with potential refinancing risks"}
        /\ (IsNaN(ReportedCr) \/ (~IsNaN(ReportedCr) /\ ~Above(ReportedCr, 1, 1)))
              => analysis.liquidity = "potential liquidity concerns"
        /\ (IsNaN(ReportedDte) \/ (~IsNaN(ReportedDte) /\ ~Below(ReportedDte, 1, 1)))
              => analysis.debt = "highly leveraged position increasing bankruptcy risk"
        /\ (IsNaN(ReportedEr) \/ (~IsNaN(ReportedEr) /\ ~Above(ReportedEr, 2, 5)))
              => analysis.equity = "asset-heavy with potential refinancing risks"
        /\ IsNaN(Last(results.cash)) => analysis.cash_str.text = "insufficient data"
        /\ ~IsNaN(Last(results.cash)) => analysis.cash_str.text = "Crores"

\* a printed report in which all three ratios and the cash are NaN
C10_Witness ==
    /\ pc = "done" /\ InSeq("report", out)
    /\ IsNaN(ReportedCr) /\ IsNaN(ReportedDte) /\ IsNaN(ReportedEr)
    /\ IsNaN(Last(results.cash))
    /\ analysis.liquidity = "potential liquidity concerns"
    /\ analysis.cash_str.text = "insufficient data"

====
